---- MODULE Spec2Model ----
(***************************************************************************)
(* Model of to_supervised (src/main/utils/utils.py), the sliding-window    *)
(* builder that turns a flattened daily series and a label series into     *)
(* (input window, output window) training samples.                         *)
(*                                                                         *)
(* Arrays are sequences; Python's 0-based half-open slices a[lo:hi] are    *)
(* modelled by Slice, which clamps at the end of the array exactly as      *)
(* Python / NumPy basic slicing does.  The raw matrix has one numeric      *)
(* column and one auxiliary (timestamp) column.                            *)
(***************************************************************************)
EXTENDS Integers, Sequences, FiniteSets

\* ---------------------------------------------------------------- bounds
MaxSegments    == 3   \* train.shape[0] ranges over 0..MaxSegments
MaxStepsPerSeg == 7   \* train.shape[1] ranges over 1..MaxStepsPerSeg
MaxInput       == 3   \* n_input ranges over 1..MaxInput and the week length 7
MaxOut         == 2   \* n_out ranges over 1..MaxOut
MaxGap         == 1   \* n_gap ranges over 0..MaxGap
MaxIncrement   == 3   \* day_increment ranges over 1..MaxIncrement and its default 7
MaxShort       == 2   \* train_label is 0..MaxShort entries shorter than the series

\* ------------------------------------------------------- the call's inputs
\* Cell (seg, t) of the 3-D input tensor: numeric column and timestamp column.
TrainCell(seg, t) == [num |-> ((seg * 5 + t * 3) % 11) + 1,
                      ts  |-> 100 * seg + t]

\* Label value of (0-based) row r of the label series.
LabelValue(r) == ((r * r + r) % 13) + 1

Min(a, b) == IF a < b THEN a ELSE b
Max(a, b) == IF a > b THEN a ELSE b

VARIABLES
    shape,                 \* <<train.shape[0], train.shape[1]>>
    train_label,           \* the label series
    n_input, n_out, n_gap, day_increment,
    y_weekly_aggregation, x_weekly_aggregation,
    data,                  \* numeric matrix after flattening (one row per time step)
    data_timestamp,        \* auxiliary matrix after flattening
    i,                     \* number of completed iterations of the for loop
    in_start, in_end, out_start, out_end,
    X, y, X_timestamp, X_weekly, y_weekly,
    cursors,               \* in_start of every iteration that emitted a sample
    pc,                    \* position in the function body
    err,                   \* the exception that ended the call, "none" otherwise
    results                \* the returned mapping

vars == <<shape, train_label, n_input, n_out, n_gap, day_increment,
          y_weekly_aggregation, x_weekly_aggregation, data, data_timestamp,
          i, in_start, in_end, out_start, out_end,
          X, y, X_timestamp, X_weekly, y_weekly, cursors, pc, err, results>>

params == <<shape, train_label, n_input, n_out, n_gap, day_increment,
            y_weekly_aggregation, x_weekly_aggregation>>

lists == <<X, y, X_timestamp, X_weekly, y_weekly>>

\* --------------------------------------------------------- array helpers
\* a[lo:hi] for 0 <= lo, 0 <= hi: rows lo .. min(hi, len(a)) - 1, never an error.
SliceNoClamp(a, lo, hi) == IF hi > Len(a) THEN <<>> ELSE SubSeq(a, lo + 1, hi)
Slice(a, lo, hi) == SubSeq(a, lo + 1, Min(hi, Len(a)))

RECURSIVE SumSeq(_)
SumSeq(s) == IF s = <<>> THEN 0 ELSE Head(s) + SumSeq(Tail(s))

\* np.split(a, n) raises ValueError unless n divides len(a).
CanSplitAny(a, n) == TRUE
CanSplit(a, n) == Len(a) % n = 0

\* np.array(np.split(a, n)): n consecutive chunks of len(a) / n rows.
Split(a, n) == [j \in 1..n |-> SubSeq(a, (j - 1) * (Len(a) \div n) + 1,
                                          j * (Len(a) \div n))]

\* np.array(np.split(a, n)).sum(axis=1): one sum per chunk.
SplitSumAxis0(a, n) == [k \in 1..(Len(a) \div n) |->
                           SumSeq([j \in 1..n |-> Split(a, n)[j][k]])]
SplitSum(a, n) == [j \in 1..n |-> SumSeq(Split(a, n)[j])]

\* np.array(list_of_windows) needs windows of one common length.
Ragged(l) == \E a, b \in 1..Len(l) : Len(l[a]) # Len(l[b])

\* ---------------------------------------------------------------- Init
Init ==
    /\ shape \in (0..MaxSegments) \X (1..MaxStepsPerSeg)
    /\ \E short \in 0..MaxShort :
          train_label = [r \in 1..Max(0, shape[1] * shape[2] - short) |-> LabelValue(r - 1)]
    /\ n_input \in (1..MaxInput) \cup {7}
    /\ n_out \in 1..MaxOut
    /\ n_gap \in 0..MaxGap
    /\ day_increment \in (1..MaxIncrement) \cup {7}
    /\ y_weekly_aggregation \in BOOLEAN
    /\ x_weekly_aggregation \in BOOLEAN
    /\ data = <<>> /\ data_timestamp = <<>>
    /\ i = 0
    /\ in_start = 0 /\ in_end = 0 /\ out_start = 0 /\ out_end = 0
    /\ X = <<>> /\ y = <<>> /\ X_timestamp = <<>> /\ X_weekly = <<>> /\ y_weekly = <<>>
    /\ cursors = <<>>
    /\ pc = "flatten"
    /\ err = "none"
    /\ results = [X |-> <<>>, X_weekly |-> <<>>, X_timestamp |-> <<>>,
                  y |-> <<>>, y_weekly |-> <<>>]

\* ------------------------------------------------------------- operations
\* train.reshape((shape[0] * shape[1], shape[2])): row r is cell (r div steps, r mod steps).
Reshape == [r \in 1..(shape[1] * shape[2]) |->
               TrainCell((r - 1) \div shape[2], (r - 1) % shape[2])]

\* Lines 66-72: flatten, split the columns, reset the cursor.
Flatten ==
    /\ pc = "flatten"
    /\ data' = [r \in 1..Len(Reshape) |-> Reshape[r].num]
    /\ data_timestamp' = [r \in 1..Len(Reshape) |-> Reshape[r].ts]
    /\ in_start' = 0
    /\ pc' = "loop"
    /\ UNCHANGED <<params, i, in_end, out_start, out_end, lists, cursors, err, results>>

\* range(len(data) - (n_out + n_gap) * 7)
TripCountShort == Len(data) - (n_out + n_gap + 1) * 7
TripCount == Len(data) - (n_out + n_gap) * 7

LoopCondInclusive == i <= TripCount
LoopCond == i < TripCount

InEnd(s) == s + n_input
OutStartFromStart(e) == e - n_input + 7 * n_gap
OutStart(e) == e + 7 * n_gap
OutEnd(os) == os + 7 * n_out

\* Lines 74-78: enter the next iteration and compute the window indices.
LoopNext ==
    /\ pc = "loop"
    /\ LoopCond
    /\ in_end' = InEnd(in_start)
    /\ out_start' = OutStart(InEnd(in_start))
    /\ out_end' = OutEnd(OutStart(InEnd(in_start)))
    /\ pc' = "window"
    /\ UNCHANGED <<params, data, data_timestamp, i, in_start, lists, cursors, err, results>>

\* Line 74: the range is exhausted.
LoopExit ==
    /\ pc = "loop"
    /\ ~LoopCond
    /\ pc' = "return"
    /\ UNCHANGED <<params, data, data_timestamp, i, in_start, in_end, out_start, out_end,
                   lists, cursors, err, results>>

\* Line 80
EmitGuardOutStart == out_start <= Len(data)
EmitGuard == out_end <= Len(data)

\* Line 82
LabelWindow == Slice(train_label, out_start, out_end)

\* Line 83
TimestampWindowOfInput == Slice(data_timestamp, in_start, in_end)
TimestampWindow == Slice(data_timestamp, out_start, out_end)

\* Lines 84, 86: the aggregated lists grow only when their flag is set.
AppendAlways(flag, l, v) == Append(l, v)
AppendIf(flag, l, v) == IF flag THEN Append(l, v) ELSE l

\* Lines 80-87: the guard holds; append the sample, then the aggregates.
Emit ==
    /\ pc = "window"
    /\ EmitGuard
    /\ X' = Append(X, Slice(data, in_start, in_end))
    /\ y' = Append(y, LabelWindow)
    /\ X_timestamp' = Append(X_timestamp, TimestampWindow)
    /\ cursors' = Append(cursors, in_start)
    /\ IF y_weekly_aggregation /\ ~CanSplit(LabelWindow, n_out)
       THEN /\ pc' = "error" /\ err' = "split_y"
            /\ UNCHANGED <<y_weekly, X_weekly>>
       ELSE /\ y_weekly' = AppendIf(y_weekly_aggregation, y_weekly,
                                    SplitSum(LabelWindow, n_out))
            /\ IF x_weekly_aggregation /\ ~CanSplit(Slice(data, in_start, in_end), n_out)
               THEN /\ pc' = "error" /\ err' = "split_x"
                    /\ UNCHANGED X_weekly
               ELSE /\ X_weekly' = AppendIf(x_weekly_aggregation, X_weekly,
                                            SplitSum(Slice(data, in_start, in_end), n_out))
                    /\ pc' = "advance"
                    /\ UNCHANGED err
    /\ UNCHANGED <<params, data, data_timestamp, i, in_start, in_end, out_start, out_end,
                   results>>

\* Line 80: the guard fails; nothing is appended.
Skip ==
    /\ pc = "window"
    /\ ~EmitGuard
    /\ pc' = "advance"
    /\ UNCHANGED <<params, data, data_timestamp, i, in_start, in_end, out_start, out_end,
                   lists, cursors, err, results>>

NextInStartWeekly == in_start + 7
NextInStart == in_start + day_increment

\* Line 89, and the end of the iteration.
Advance ==
    /\ pc = "advance"
    /\ in_start' = NextInStart
    /\ i' = i + 1
    /\ pc' = "loop"
    /\ UNCHANGED <<params, data, data_timestamp, in_end, out_start, out_end,
                   lists, cursors, err, results>>

\* Lines 91-95: convert the lists to arrays and return them.
Return ==
    /\ pc = "return"
    /\ results' = [X |-> X, X_weekly |-> X_weekly, X_timestamp |-> X_timestamp,
                   y |-> y, y_weekly |-> y_weekly]
    /\ pc' = "done"
    /\ UNCHANGED <<params, data, data_timestamp, i, in_start, in_end, out_start, out_end,
                   lists, cursors, err>>

\* Line 93: np.array(y) on windows of unequal length raises ValueError in
\* NumPy >= 1.24 (older releases build an object array, which is Return).
ReturnRagged ==
    /\ pc = "return"
    /\ Ragged(y)
    /\ pc' = "error"
    /\ err' = "ragged"
    /\ UNCHANGED <<params, data, data_timestamp, i, in_start, in_end, out_start, out_end,
                   lists, cursors, results>>

Next ==
    \/ Flatten
    \/ LoopNext
    \/ LoopExit
    \/ Emit
    \/ Skip
    \/ Advance
    \/ Return
    \/ ReturnRagged

Spec == Init /\ [][Next]_vars

\* ------------------------------------------------------------ properties
total_time_steps == shape[1] * shape[2]

\* The emission condition of the cursor position k * day_increment.
EmitsAt(k) == k * day_increment + n_input + 7 * n_gap + 7 * n_out <= total_time_steps

ClosedFormCursors == {k * day_increment : k \in {k \in 0..total_time_steps : EmitsAt(k)}}

\* Cursors of the loop "while out_end <= total_time_steps: emit; advance".
RECURSIVE WhileLoopCursors(_)
WhileLoopCursors(s) ==
    IF s + n_input + 7 * n_gap + 7 * n_out <= total_time_steps
    THEN <<s>> \o WhileLoopCursors(s + day_increment)
    ELSE <<>>

\* Window indices of the s-th emitted sample.
SampleOutStart(s) == cursors[s] + n_input + 7 * n_gap
SampleOutEnd(s) == cursors[s] + n_input + 7 * n_gap + 7 * n_out

\* Sum of a[lo], ..., a[hi - 1] (0-based).
RECURSIVE SumRange(_, _, _)
SumRange(a, lo, hi) == IF lo >= hi THEN 0 ELSE a[lo + 1] + SumRange(a, lo + 1, hi)

\* The label series covers the whole flattened series (the documented input contract).
ValidLabels == Len(train_label) >= total_time_steps

NoResults == [X |-> <<>>, X_weekly |-> <<>>, X_timestamp |-> <<>>, y |-> <<>>, y_weekly |-> <<>>]

\* C1: once the fixed-trip-count loop has finished, the cursors that emitted
\* a sample are exactly the multiples of day_increment that satisfy the
\* emission condition, in the order a loop driven by the emission condition
\* alone visits them; 21 steps, n_input 7, n_out 1, n_gap 0, increment 7
\* give exactly 2 samples.
C1_EmittedCursorSet ==
    pc \in {"return", "done"} =>
        /\ {cursors[s] : s \in 1..Len(cursors)} = ClosedFormCursors
        /\ Len(cursors) = Cardinality(ClosedFormCursors)
        /\ cursors = WhileLoopCursors(0)
        /\ Len(X) = Len(cursors)
        /\ (total_time_steps = 21 /\ n_input = 7 /\ n_out = 1 /\ n_gap = 0 /\ day_increment = 7
              => Len(X) = 2)

C1_Witness ==
    /\ pc = "done"
    /\ total_time_steps = 21 /\ n_input = 7 /\ n_out = 1 /\ n_gap = 0 /\ day_increment = 7
    /\ Len(results.X) = 2

\* C2: every step that emits a sample has
\* 0 <= in_start < in_end <= out_start < out_end <= total_time_steps, and an
\* iteration whose out_end exceeds total_time_steps appends nothing and
\* goes on to advance the cursor.
C2_WindowInBounds ==
    [][ /\ (Len(X') = Len(X) + 1 =>
              /\ 0 <= in_start /\ in_start < in_end /\ in_end <= out_start
              /\ out_start < out_end /\ out_end <= total_time_steps)
        /\ (pc = "window" /\ out_end > total_time_steps =>
              /\ UNCHANGED <<X, y, X_timestamp, X_weekly, y_weekly>>
              /\ pc' = "advance" /\ err' = "none") ]_vars

C2_Witness ==
    /\ pc = "advance"
    /\ out_end > total_time_steps
    /\ Len(X) >= 1

\* C3: without y_weekly_aggregation y_weekly stays empty; with it (and a
\* label series covering the flattened series) y_weekly has one entry per
\* emitted sample, of n_out values, the j-th being the sum of the labels at
\* [out_start + 7j, out_start + 7j + 7).
C3_WeeklyOutput ==
    /\ (~y_weekly_aggregation => y_weekly = <<>> /\ results.y_weekly = <<>>)
    /\ (pc = "done" => results.y_weekly = y_weekly)
    /\ (y_weekly_aggregation /\ ValidLabels =>
          /\ Len(y_weekly) = Len(cursors)
          /\ \A s \in 1..Len(y_weekly) :
                /\ Len(y_weekly[s]) = n_out
                /\ \A j \in 0..(n_out - 1) :
                      y_weekly[s][j + 1] = SumRange(train_label, SampleOutStart(s) + 7 * j,
                                                    SampleOutStart(s) + 7 * j + 7))

C3_Witness ==
    /\ pc = "done"
    /\ y_weekly_aggregation /\ ValidLabels
    /\ n_out = 2
    /\ Len(results.y_weekly) >= 2

\* C4: after every iteration X, y and X_timestamp have one entry per sample
\* emitted so far, an enabled aggregated list has as many and a disabled one
\* is empty; the s-th entries of all lists belong to the same cursor, and
\* the cursors increase strictly.
C4_ParallelLists ==
    pc \in {"loop", "return", "done"} =>
        /\ Len(X) = Cardinality({k \in 0..(i - 1) : EmitsAt(k)})
        /\ Len(y) = Len(X) /\ Len(X_timestamp) = Len(X) /\ Len(cursors) = Len(X)
        /\ Len(y_weekly) = (IF y_weekly_aggregation THEN Len(X) ELSE 0)
        /\ Len(X_weekly) = (IF x_weekly_aggregation THEN Len(X) ELSE 0)
        /\ \A s \in 1..Len(X) :
              /\ X[s] = SubSeq(data, cursors[s] + 1, cursors[s] + n_input)
              /\ X_timestamp[s][1] = data_timestamp[SampleOutStart(s) + 1]
              /\ y[s] = SubSeq(train_label, SampleOutStart(s) + 1,
                               Min(SampleOutEnd(s), Len(train_label)))
              /\ (y_weekly_aggregation => y_weekly[s] = SplitSum(y[s], n_out))
              /\ (x_weekly_aggregation => X_weekly[s] = SplitSum(X[s], n_out))
        /\ \A s \in 1..(Len(cursors) - 1) : cursors[s] < cursors[s + 1]

C4_Witness ==
    /\ pc = "loop"
    /\ Len(X) >= 2
    /\ i > Len(X)
    /\ y_weekly_aggregation /\ ~x_weekly_aggregation
    /\ Len(y_weekly) = Len(X) /\ X_weekly = <<>>

\* C5: in an iteration that emitted a sample the output window starts
\* exactly 7 * n_gap rows after the input window ends, so the two row ranges
\* are disjoint.
C5_GapSeparation ==
    (pc \in {"advance", "error"} /\ Len(cursors) > 0 /\ cursors[Len(cursors)] = in_start) =>
        /\ out_start >= in_end
        /\ out_start - in_end = 7 * n_gap
        /\ (in_start..(in_end - 1)) \cap (out_start..(out_end - 1)) = {}
        /\ Cardinality({r \in 0..total_time_steps : in_end <= r /\ r < out_start}) = 7 * n_gap

C5_Witness ==
    /\ pc = "advance"
    /\ Len(cursors) > 0 /\ cursors[Len(cursors)] = in_start
    /\ n_gap = 1
    /\ out_start - in_end = 7

\* C6 as stated: with x_weekly_aggregation and n_input not a multiple of
\* n_out the call never returns, whatever the series length.
C6_NonDivisibleAlwaysFails ==
    (x_weekly_aggregation /\ n_input % n_out # 0) => pc # "done"

\* C6 (amended): with x_weekly_aggregation and n_input not a multiple of
\* n_out the call fails in its first iteration if that iteration emits a
\* sample (n_input + 7 * n_gap + 7 * n_out <= total_time_steps); if no
\* iteration emits, it raises nothing and returns five empty arrays.
C6_NonDivisibleInput ==
    (x_weekly_aggregation /\ n_input % n_out # 0) =>
        IF EmitsAt(0)
        THEN i = 0 /\ pc \in {"flatten", "loop", "window", "error"}
        ELSE /\ err = "none" /\ pc # "error"
             /\ cursors = <<>>
             /\ (pc = "done" => results = NoResults)

C6_Witness ==
    /\ pc = "error" /\ err = "split_x"
    /\ x_weekly_aggregation /\ n_input % n_out # 0
    /\ Len(X) = 1 /\ X_weekly = <<>>

\* C7 as stated: a call in which the label series is shorter than the
\* out_end of an emitted sample never returns a collection.
C7_ShortLabelsRaise ==
    pc = "done" => \A s \in 1..Len(cursors) : SampleOutEnd(s) <= Len(train_label)

\* C7 (amended): a label series shorter than an emitted sample's out_end
\* raises no index error; the slice is clamped, so the sample's y entry
\* holds only the max(0, min(len(train_label), out_end) - out_start) labels
\* that exist.  Without aggregation the loop always completes; with
\* y_weekly_aggregation the call fails only when n_out does not divide the
\* clamped length, and a returned collection can hold shortened windows.
C7_ShortLabelsTruncate ==
    /\ \A s \in 1..Len(y) :
          /\ Len(y[s]) = Max(0, Min(Len(train_label), SampleOutEnd(s)) - SampleOutStart(s))
          /\ \A j \in 1..Len(y[s]) : y[s][j] = train_label[SampleOutStart(s) + j]
    /\ (err = "split_y" =>
          /\ y_weekly_aggregation
          /\ SampleOutEnd(Len(cursors)) > Len(train_label)
          /\ Len(y[Len(y)]) % n_out # 0)
    /\ (pc = "done" /\ y_weekly_aggregation => \A s \in 1..Len(y) : Len(y[s]) % n_out = 0)
    /\ (~y_weekly_aggregation /\ ~x_weekly_aggregation => err \in {"none", "ragged"})
    /\ (err = "ragged" => \E s \in 1..Len(cursors) : SampleOutEnd(s) > Len(train_label))

C7_Witness ==
    /\ pc = "done"
    /\ \E s \in 1..Len(cursors) :
          /\ SampleOutEnd(s) > Len(train_label)
          /\ Len(results.y[s]) < 7 * n_out

\* C8: when total_time_steps - (n_out + n_gap) * 7 <= 0 the loop body never
\* runs, nothing is raised, and the returned arrays are all empty.
C8_NoIterations ==
    total_time_steps - (n_out + n_gap) * 7 <= 0 =>
        /\ i = 0
        /\ pc \in {"flatten", "loop", "return", "done"}
        /\ err = "none"
        /\ X = <<>> /\ y = <<>> /\ X_timestamp = <<>> /\ X_weekly = <<>> /\ y_weekly = <<>>
        /\ results = NoResults

C8_Witness ==
    /\ pc = "done"
    /\ total_time_steps > 0
    /\ total_time_steps - (n_out + n_gap) * 7 <= 0
    /\ results = NoResults

\* C9: the sample emitted at cursor s holds in X the n_input rows
\* [s, s + n_input) of the numeric matrix, in X_timestamp the auxiliary rows
\* [s + n_input + 7 n_gap, s + n_input + 7 n_gap + 7 n_out), and (the label
\* series covering the flattened series) in y the labels of that same range.
C9_WindowContents ==
    \A s \in 1..Len(cursors) :
        /\ s <= Len(X) /\ s <= Len(y) /\ s <= Len(X_timestamp)
        /\ X[s] = [j \in 1..n_input |-> data[cursors[s] + j]]
        /\ X_timestamp[s] = [j \in 1..(7 * n_out) |-> data_timestamp[SampleOutStart(s) + j]]
        /\ (ValidLabels => y[s] = [j \in 1..(7 * n_out) |-> train_label[SampleOutStart(s) + j]])
        /\ (pc = "done" => /\ results.X[s] = X[s] /\ results.y[s] = y[s]
                           /\ results.X_timestamp[s] = X_timestamp[s])

C9_Witness ==
    /\ pc = "done"
    /\ ValidLabels
    /\ Len(results.X) >= 2
    /\ n_gap = 1 /\ n_input # 7 * n_out

\* C10: at the start of the k-th iteration in_start = k * day_increment,
\* whether or not earlier iterations emitted; the emitting iterations are a
\* prefix of the loop: an emitting step finds every earlier iteration to
\* have emitted.
C10_CursorAdvance ==
    /\ (pc \in {"loop", "window", "advance"} => in_start = i * day_increment)
    /\ \A s \in 1..Len(cursors) : cursors[s] = (s - 1) * day_increment
    /\ Len(cursors) <= i + 1
    /\ \A k \in 0..(i - 1) : ~EmitsAt(k) => Len(cursors) <= k

C10_Witness ==
    /\ pc = "return"
    /\ Len(cursors) >= 2
    /\ i > Len(cursors) + 1
    /\ day_increment \notin {1, 7}
    /\ n_input # 7

====
